---- MODULE Spec2Model ----
(***************************************************************************)
(* Authentication / authorization core of the AI-hub backend:              *)
(*   - the Credential Service (services/jwtService.ts and utils/jwt),      *)
(*   - the Access Gate (authenticateToken, optionalAuth, authMiddleware),  *)
(*   - the Role Gate (authorize),                                          *)
(*   - the user routes that the gates protect, login, and the users table  *)
(*     under UserService (create, update, delete, concurrent DELETEs),     *)
(*   - the browser client (ApiClient's interceptors and AuthProvider).     *)
(* Strings are sequences of one-character strings, so that startsWith,     *)
(* substring and toLowerCase are computed the way the code computes them.  *)
(***************************************************************************)
EXTENDS Integers, Sequences, FiniteSets, TLC

(* ------------------------------ bounds --------------------------------- *)

\* Number of DELETE handlers that run at the same time.
MaxInFlight == 2

\* Last second of the server clock that the model explores.
MaxTime == 3

\* Number of user records the store may hold (two seeded, the rest created).
MaxUsers == 3

\* Number of issued credentials that are followed at the same time.
MaxCredentials == 2

(* ------------------------------ strings -------------------------------- *)

UpperAlphabet ==
  <<"A","B","C","D","E","F","G","H","I","J","K","L","M",
    "N","O","P","Q","R","S","T","U","V","W","X","Y","Z">>

LowerAlphabet ==
  <<"a","b","c","d","e","f","g","h","i","j","k","l","m",
    "n","o","p","q","r","s","t","u","v","w","x","y","z">>

\* String.prototype.toLowerCase, one character.
toLowerChar(c) ==
  IF \E i \in DOMAIN UpperAlphabet : UpperAlphabet[i] = c
  THEN LowerAlphabet[CHOOSE i \in DOMAIN UpperAlphabet : UpperAlphabet[i] = c]
  ELSE c

\* String.prototype.toLowerCase.
toLowerCase(s) == [i \in DOMAIN s |-> toLowerChar(s[i])]

\* String.prototype.startsWith.
startsWith(s, p) == Len(s) >= Len(p) /\ SubSeq(s, 1, Len(p)) = p

\* String.prototype.substring(n): the string from (0-based) index n on.
substring(s, n) == SubSeq(s, n + 1, Len(s))

\* The literal 'Bearer ' of the Authorization header.
BearerPrefix == <<"B","e","a","r","e","r"," ">>

\* Role labels used by the routes, the tests and the seeded accounts.
admin  == <<"a","d","m","i","n">>
ADMIN  == <<"A","D","M","I","N">>
Admin  == <<"A","d","m","i","n">>
editor == <<"e","d","i","t","o","r">>
viewer == <<"v","i","e","w","e","r">>

(* --------------------------- jsonwebtoken ------------------------------ *)

Digits == <<"0","1","2","3","4","5","6","7","8","9">>

IsDigit(c) == \E i \in DOMAIN Digits : Digits[i] = c

DigitValue(c) == (CHOOSE i \in DOMAIN Digits : Digits[i] = c) - 1

\* A NumericDate (seconds) as it is written into the payload segment.
EncodeNum(n) == <<Digits[(n \div 10) + 1], Digits[(n % 10) + 1]>>

DecodeNum(s) == 10 * DigitValue(s[1]) + DigitValue(s[2])

\* The name of the subject-id field of a payload: JwtService writes
\* 'userId', utils/jwt writes 'id'.
KeyTags == {"U", "I"}

KeyOfTag(t) == IF t = "U" THEN "userId" ELSE "id"

TagOfKey(k) == IF k = "userId" THEN "U" ELSE "I"

\* The payload segment of a token: the claim's fields, then iat and exp.
EncodePayload(c) ==
  <<TagOfKey(c.key), c.sub, c.email>> \o c.role \o EncodeNum(c.iat) \o EncodeNum(c.exp)

\* Does a payload segment parse into a claim?
PayloadParses(p) ==
  /\ Len(p) >= 7
  /\ p[1] \in KeyTags
  /\ \A i \in (Len(p) - 3)..Len(p) : IsDigit(p[i])

DecodePayload(p) ==
  [key   |-> KeyOfTag(p[1]),
   sub   |-> p[2],
   email |-> p[3],
   role  |-> SubSeq(p, 4, Len(p) - 4),
   iat   |-> DecodeNum(SubSeq(p, Len(p) - 3, Len(p) - 2)),
   exp   |-> DecodeNum(SubSeq(p, Len(p) - 1, Len(p)))]

\* The HMAC of a payload segment under a secret: a value that is a
\* function of both and that no other (secret, payload) pair produces.
Hmac(secret, p) == <<secret>> \o p

\* Position of the dot that separates payload and signature, 0 if none.
DotIndex(t) ==
  IF \E i \in DOMAIN t : t[i] = "."
  THEN CHOOSE i \in DOMAIN t : t[i] = "." /\ \A j \in 1..(i - 1) : t[j] # "."
  ELSE 0

\* jwt.sign(payload, secret, {expiresIn}) at clock t: iat = t,
\* exp = iat + expiresIn, both stored in the token.
jwt_sign(payload, secret, expiresIn, t) ==
  LET c == [key |-> payload.key, sub |-> payload.sub, email |-> payload.email,
            role |-> payload.role, iat |-> t, exp |-> t + expiresIn]
      p == EncodePayload(c)
  IN  p \o <<".">> \o Hmac(secret, p)

NoClaim == [key |-> "", sub |-> "", email |-> "", role |-> <<>>, iat |-> 0, exp |-> 0]

\* jwt.verify replaced by what jwt.decode does plus the expiry test: the
\* signature segment is not compared with the recomputed one.
jwt_verify_unsigned(token, secret, t) ==
  LET d == DotIndex(token)
      p == SubSeq(token, 1, d - 1)
  IN  IF d = 0 \/ ~PayloadParses(p)
      THEN [err |-> "Malformed", claim |-> NoClaim]
      ELSE IF t >= DecodePayload(p).exp
      THEN [err |-> "Expired", claim |-> NoClaim]
      ELSE [err |-> "", claim |-> DecodePayload(p)]

\* jwt.verify(token, secret) at clock t: parse, then signature, then expiry.
\* err = "" on success; otherwise the error jsonwebtoken throws.
jwt_verify(token, secret, t) ==
  LET d == DotIndex(token)
      p == SubSeq(token, 1, d - 1)
      s == SubSeq(token, d + 1, Len(token))
  IN  IF d = 0 \/ ~PayloadParses(p)
      THEN [err |-> "Malformed", claim |-> NoClaim]
      ELSE IF s # Hmac(secret, p)
      THEN [err |-> "InvalidSignature", claim |-> NoClaim]
      ELSE IF t >= DecodePayload(p).exp
      THEN [err |-> "Expired", claim |-> NoClaim]
      ELSE [err |-> "", claim |-> DecodePayload(p)]

(* ------------------------- Credential Service -------------------------- *)

\* The value of an environment variable that is not set.
Unset == ""

\* The signing secret the deployment configures, and a secret that is not
\* the server's (another deployment's, or an attacker's guess).
ConfiguredSecret == "k"
ForeignSecret == "z"

\* utils/jwt: process.env.JWT_SECRET || 'fallback-secret-key'.
FallbackSecret == "f"

\* Durations (seconds) that JWT_EXPIRES_IN is configured with: '-1h' of the
\* tests (already expired at issuance) and a positive lifetime.
TTLs == {-1, 2}

\* utils/jwt: process.env.JWT_EXPIRES_IN || '1h' is always a duration; the
\* model configures it in every run.
VARIABLES
  now,             \* the server clock, in seconds
  envSecret,       \* process.env.JWT_SECRET
  JWT_EXPIRES_IN,  \* process.env.JWT_EXPIRES_IN, resolved to seconds
  held,            \* the credentials issued so far that may still be presented:
                   \* records [token, user, issuedAt, ttl] (the credential, whom
                   \* it was issued for, and when and with which lifetime)
  users,           \* the identity store: a set of user records
  localStorage,    \* the browser's localStorage: the items 'auth_token' and
                   \* 'auth_user', each {} (absent) or {string}
  authProvider,    \* AuthProvider's React state: token and user, each {}
                   \* (null) or {value}
  req,             \* the request being served and its response so far
  inflight         \* the DELETE /api/users/:id requests whose handlers are
                   \* between their awaits: per handler a record [pc, id,
                   \* status, deleteCalls]

vars == <<now, envSecret, JWT_EXPIRES_IN, held, users, localStorage, authProvider, req, inflight>>

\* jwtService.ts: getRequiredEnvVar('JWT_SECRET') throws at module load
\* when the variable is not set, so JwtService exists only when it is.
JwtServiceLoaded == envSecret # Unset

\* jwtService.ts: const JWT_SECRET = getRequiredEnvVar('JWT_SECRET').
JwtService_JWT_SECRET == envSecret

\* utils/jwt: const JWT_SECRET = process.env.JWT_SECRET || 'fallback-secret-key'.
JWT_SECRET == IF envSecret # Unset THEN envSecret ELSE FallbackSecret

\* JwtService.generateToken(user) at clock t.
generateToken(user, t) ==
  jwt_sign([key |-> "userId", sub |-> user.id, email |-> user.email, role |-> user.role],
           JwtService_JWT_SECRET, JWT_EXPIRES_IN, t)

\* signToken writing the email where the subject id belongs.
signToken_emailAsId(payload, t) ==
  jwt_sign([key |-> "id", sub |-> payload.email, email |-> payload.email,
            role |-> payload.role],
           JWT_SECRET, JWT_EXPIRES_IN, t)

\* utils/jwt signToken(payload) at clock t.
signToken(payload, t) ==
  jwt_sign([key |-> "id", sub |-> payload.id, email |-> payload.email, role |-> payload.role],
           JWT_SECRET, JWT_EXPIRES_IN, t)

\* JwtService.verifyToken resolving the expiry at verification time, as
\* iat + the JWT_EXPIRES_IN now configured, instead of reading the stored exp.
JwtService_verifyToken_reresolved(token, t) ==
  LET r == jwt_verify(token, JwtService_JWT_SECRET, 0)
  IN  IF r.err = "" /\ t < r.claim.iat + JWT_EXPIRES_IN THEN {r.claim} ELSE {}

\* JwtService.verifyToken(token): the claim, or throws
\* Error('Invalid or expired token') whatever jwt.verify threw.
\* {} stands for the throw, {claim} for the returned claim.
JwtService_verifyToken(token, t) ==
  LET r == jwt_verify(token, JwtService_JWT_SECRET, t)
  IN  IF r.err = "" THEN {r.claim} ELSE {}

\* What JwtService.verifyToken reports to its caller when it fails: the
\* message of the Error built in its catch, whatever jwt.verify threw
\* ("" when the claim is returned).
JwtService_verifyToken_failure(token, t) ==
  IF jwt_verify(token, JwtService_JWT_SECRET, t).err = "" THEN "" ELSE "Invalid or expired token"

\* What utils/jwt verifyToken reports to its caller when it fails: null,
\* whatever jwt.verify threw ("" when the claim is returned).
verifyToken_failure(token, t) ==
  IF jwt_verify(token, JWT_SECRET, t).err = "" THEN "" ELSE "null"

\* verifyToken with jwt.verify's ignoreExpiration set.
verifyToken_ignoreExpiration(token, t) ==
  LET r == jwt_verify(token, JWT_SECRET, 0)
  IN  IF r.err = "" THEN {r.claim} ELSE {}

\* utils/jwt verifyToken(token): the claim, or null ({}).
verifyToken(token, t) ==
  LET r == jwt_verify(token, JWT_SECRET, t)
  IN  IF r.err = "" THEN {r.claim} ELSE {}

\* decodeToken returning the claim only of a credential that verifies now.
decodeToken_verifying(token) ==
  LET r == jwt_verify(token, JwtService_JWT_SECRET, now)
  IN  IF r.err = "" THEN {r.claim} ELSE {}

\* JwtService.decodeToken(token): jwt.decode(token) reads the payload segment
\* and neither recomputes the signature nor looks at exp; it returns null
\* ({}) for a string it cannot parse, and so does the catch around it.
decodeToken(token) ==
  LET d == DotIndex(token)
      p == SubSeq(token, 1, d - 1)
  IN  IF d = 0 \/ ~PayloadParses(p) THEN {} ELSE {DecodePayload(p)}

(* ------------------------------ requests ------------------------------- *)

\* Identities that credentials are issued for.
Identities ==
  { [id |-> "1", email |-> "a", role |-> admin],
    [id |-> "2", email |-> "b", role |-> viewer],
    [id |-> "3", email |-> "c", role |-> ADMIN],
    [id |-> "4", email |-> "d", role |-> editor] }

\* Allow-lists that routes are registered with.
AllowLists == { <<admin>>, <<Admin>>, <<admin, editor>>, <<>> }

Mw(name, allowedRoles) == [name |-> name, allowedRoles |-> allowedRoles]

\* Middleware stacks of protected routes: an Access Gate (or none), then
\* optionally authorize(...allowedRoles).
Stacks ==
  LET gates == { <<Mw("authenticateToken", <<>>)>>, <<Mw("authMiddleware", <<>>)>>,
                 <<Mw("optionalAuth", <<>>)>>, <<>> }
  IN  { g \in gates : g # <<>> }
      \cup { g \o <<Mw("authorize", L)>> : g \in gates, L \in AllowLists }

NoHeader == [present |-> FALSE, value |-> <<>>]

Header(v) == [present |-> TRUE, value |-> v]

\* What a client, honest or not, can make of a credential it holds.
Truncated(w) == SubSeq(w, 1, Len(w) - 1)

\* The payload's role replaced by 'admin', the signature kept.
RoleRewritten(w) ==
  LET d == DotIndex(w)
      c == DecodePayload(SubSeq(w, 1, d - 1))
  IN  EncodePayload([c EXCEPT !.role = admin]) \o SubSeq(w, d, Len(w))

\* The same payload signed under a secret that is not the server's.
ForeignSigned(w) ==
  LET p == SubSeq(w, 1, DotIndex(w) - 1)
  IN  p \o <<".">> \o Hmac(ForeignSecret, p)

Noise == <<"x","-","y">>

CredentialStrings ==
  { <<>>, Noise }
  \cup UNION { {h.token, Truncated(h.token), RoleRewritten(h.token),
                 ForeignSigned(h.token)} : h \in held }

\* Authorization header values a request may carry.
Headers ==
  { NoHeader, Header(<<>>) }
  \cup { Header(BearerPrefix \o c) : c \in CredentialStrings }
  \cup UNION { { Header(h.token),
                 Header(toLowerCase(BearerPrefix) \o h.token),
                 Header(<<"B","e","a","r","e","r">> \o h.token),
                 Header(<<"T","o","k","e","n"," ">> \o h.token) } : h \in held }

NoBody == [email |-> "", password |-> <<>>, name |-> "", role |-> <<>>]

IdleReq ==
  [stage |-> "idle", stack |-> <<>>, pos |-> 0, op |-> "", id |-> "", body |-> NoBody,
   header |-> NoHeader, user |-> {}, status |-> 0, error |-> "",
   responses |-> 0, nexts |-> 0, handled |-> FALSE, usersBefore |-> {}, data |-> {}]

\* express: next() hands the request to the next layer of the stack, and
\* to the route handler after the last one.
next(r) ==
  [r EXCEPT !.pos = @ + 1, !.nexts = @ + 1,
            !.stage = IF r.pos + 1 > Len(r.stack) THEN "handler" ELSE "middleware"]

\* res.status(status).json({success: false, error}): the request ends here.
Reject(r, status, error) ==
  [r EXCEPT !.status = status, !.error = error, !.responses = @ + 1, !.stage = "done"]

\* The middleware that the request is at.
At(name) ==
  /\ req.stage = "middleware"
  /\ req.stack[req.pos].name = name

(* ---------------------------- Access Gate ------------------------------ *)

\* BearerToken without the prefix test: whatever follows the first seven
\* characters is taken as the token.
BearerToken_anyScheme(h) ==
  IF h.present /\ h.value # <<>> THEN {substring(h.value, 7)} ELSE {}

\* authHeader && authHeader.startsWith('Bearer ') ? authHeader.substring(7) : null
\* ({} stands for null and for an absent or empty header).
BearerToken(h) ==
  IF h.present /\ h.value # <<>> /\ startsWith(h.value, BearerPrefix)
  THEN {substring(h.value, 7)}
  ELSE {}

\* JavaScript's !token for a string or null.
Falsy(tok) == tok = {} \/ tok = {<<>>}

\* authenticateToken looking the subject up in the identity store and
\* rejecting a credential whose account no longer exists.
authenticateTokenOn_checksStore(r, t) ==
  LET token == BearerToken(r.header)
  IN  IF Falsy(token)
      THEN Reject(r, 401, "Access token is required")
      ELSE LET decoded == JwtService_verifyToken(CHOOSE w \in token : TRUE, t)
           IN  IF decoded = {} \/ ~\E c \in decoded, u \in users : u.id = c.sub
               THEN Reject(r, 403, "Invalid or expired token")
               ELSE next([r EXCEPT !.user = decoded])

\* How a call of a verify function ends: it returns a value (a claim, or {}
\* for null), or it throws.
Returned(value) == [threw |-> FALSE, value |-> value]

Threw == [threw |-> TRUE, value |-> {}]

\* authenticateToken without its inner try/catch: what verifyToken throws
\* leaves the middleware, which has neither answered nor called next.
authenticateTokenGiven_uncaught(r, outcome) ==
  IF outcome.threw
  THEN [r EXCEPT !.stage = "done", !.error = "Error: Invalid or expired token"]
  ELSE next([r EXCEPT !.user = outcome.value])

\* middlewares/authMiddleware.ts authenticateToken from the call of
\* jwtService.verifyToken on, given how that call ends: the inner catch
\* answers 403; a returned value is attached and next() called.
authenticateTokenGiven(r, outcome) ==
  IF outcome.threw
  THEN Reject(r, 403, "Invalid or expired token")
  ELSE next([r EXCEPT !.user = outcome.value])

\* middlewares/authMiddleware.ts authenticateToken, on request r at clock t.
\* JwtService.verifyToken throws where it has no claim to return. The outer
\* catch (500 'Authentication error') is never entered: the header is a
\* string or undefined, and express catches what a later layer throws
\* before it could come back through next().
authenticateTokenOn(r, t) ==
  LET token == BearerToken(r.header)
  IN  IF Falsy(token)
      THEN Reject(r, 401, "Access token is required")
      ELSE LET decoded == JwtService_verifyToken(CHOOSE w \in token : TRUE, t)
           IN  authenticateTokenGiven(r, IF decoded = {} THEN Threw ELSE Returned(decoded))

\* authMiddleware telling the caller that the credential has expired.
authMiddlewareOn_expiredDistinct(r, t) ==
  IF ~r.header.present \/ r.header.value = <<>> \/ ~startsWith(r.header.value, BearerPrefix)
  THEN Reject(r, 401, "Authentication required")
  ELSE LET v == jwt_verify(substring(r.header.value, 7), JWT_SECRET, t)
       IN  IF v.err = "Expired"
           THEN Reject(r, 401, "Token expired")
           ELSE IF v.err # ""
           THEN Reject(r, 401, "Invalid or expired token")
           ELSE next([r EXCEPT !.user = {v.claim}])

\* middleware/auth authMiddleware from the call of verifyToken on, given how
\* that call ends: null is answered 401 'Invalid or expired token', a claim
\* is attached and next() called, and the catch around the whole body
\* answers 401 'Authentication failed'.
authMiddlewareGiven(r, outcome) ==
  IF outcome.threw
  THEN Reject(r, 401, "Authentication failed")
  ELSE IF outcome.value = {}
  THEN Reject(r, 401, "Invalid or expired token")
  ELSE next([r EXCEPT !.user = outcome.value])

\* middleware/auth authMiddleware, on request r at clock t. utils/jwt
\* verifyToken returns null instead of throwing.
authMiddlewareOn(r, t) ==
  IF ~r.header.present \/ r.header.value = <<>> \/ ~startsWith(r.header.value, BearerPrefix)
  THEN Reject(r, 401, "Authentication required")
  ELSE authMiddlewareGiven(r, Returned(verifyToken(substring(r.header.value, 7), t)))

\* optionalAuth rejecting a credential that fails verification, the way
\* authenticateToken does.
optionalAuthOn_rejecting(r, t) ==
  LET token == BearerToken(r.header)
  IN  IF Falsy(token)
      THEN next(r)
      ELSE LET decoded == JwtService_verifyToken(CHOOSE w \in token : TRUE, t)
           IN  IF decoded = {}
               THEN Reject(r, 403, "Invalid or expired token")
               ELSE next([r EXCEPT !.user = decoded])

\* middlewares/authMiddleware.ts optionalAuth, on request r at clock t. Its
\* inner catch swallows what verifyToken throws; its outer catch (a second
\* next()) is never entered: express catches what a later layer throws
\* before it could come back through next().
optionalAuthOn(r, t) ==
  LET token == BearerToken(r.header)
  IN  IF Falsy(token)
      THEN next(r)
      ELSE LET decoded == JwtService_verifyToken(CHOOSE w \in token : TRUE, t)
           IN  IF decoded = {} THEN next(r) ELSE next([r EXCEPT !.user = decoded])

(* ----------------------------- Role Gate ------------------------------- *)

\* hasRole comparing the allow-list entries as written.
hasRole_caseSensitive(allowedRoles, userRole) ==
  \E i \in DOMAIN allowedRoles : allowedRoles[i] = userRole

\* allowedRoles.some(role => role.toLowerCase() === userRole)
hasRole(allowedRoles, userRole) ==
  \E i \in DOMAIN allowedRoles : toLowerCase(allowedRoles[i]) = userRole

\* authorize letting a request without identity through.
authorizeOn_failOpen(allowedRoles, r) ==
  IF r.user = {}
  THEN next(r)
  ELSE LET userRole == toLowerCase((CHOOSE u \in r.user : TRUE).role)
       IN  IF ~(\E i \in DOMAIN allowedRoles : toLowerCase(allowedRoles[i]) = userRole)
           THEN Reject(r, 403, "Insufficient permissions")
           ELSE next(r)

\* authorize answering a role mismatch like a missing identity.
authorizeOn_mismatch401(allowedRoles, r) ==
  IF r.user = {}
  THEN Reject(r, 401, "Authentication required")
  ELSE LET userRole == toLowerCase((CHOOSE u \in r.user : TRUE).role)
       IN  IF ~(\E i \in DOMAIN allowedRoles : toLowerCase(allowedRoles[i]) = userRole)
           THEN Reject(r, 401, "Authentication required")
           ELSE next(r)

\* authorize taking the role from the account's row in the identity store
\* instead of from the attached claim.
authorizeOn_liveRole(allowedRoles, r) ==
  IF r.user = {}
  THEN Reject(r, 401, "Authentication required")
  ELSE LET c == CHOOSE u \in r.user : TRUE
           rows == { u \in users : u.id = c.sub }
           userRole == toLowerCase(IF rows = {} THEN <<>> ELSE (CHOOSE u \in rows : TRUE).role)
       IN  IF ~(\E i \in DOMAIN allowedRoles : toLowerCase(allowedRoles[i]) = userRole)
           THEN Reject(r, 403, "Insufficient permissions")
           ELSE next(r)

\* authorize telling the rejected caller how many roles the route accepts.
authorizeOn_namesPolicy(allowedRoles, r) ==
  IF r.user = {}
  THEN Reject(r, 401, "Authentication required")
  ELSE LET userRole == toLowerCase((CHOOSE u \in r.user : TRUE).role)
       IN  IF ~(\E i \in DOMAIN allowedRoles : toLowerCase(allowedRoles[i]) = userRole)
           THEN Reject(r, 403, IF Len(allowedRoles) = 1
                               THEN "Insufficient permissions: one role is accepted"
                               ELSE "Insufficient permissions")
           ELSE next(r)

\* The value of a property that an object does not have. (No string of
\* the model equals it: strings are made of one-character strings.)
undefined == <<"undefined">>

\* An exception leaves a middleware or a handler: express hands it to
\* errorHandler, which answers err.status || 500 with err.message.
Throws(r, message) ==
  [r EXCEPT !.status = 500, !.error = message, !.responses = @ + 1, !.stage = "done"]

\* middleware/authorize authorize(...allowedRoles), on request r.
\* req.user.role.toLowerCase() throws a TypeError when the attached claim
\* has no role.
authorizeOn(allowedRoles, r) ==
  IF r.user = {}
  THEN Reject(r, 401, "Authentication required")
  ELSE IF (CHOOSE u \in r.user : TRUE).role = undefined
  THEN Throws(r, "TypeError: Cannot read properties of undefined (reading 'toLowerCase')")
  ELSE LET userRole == toLowerCase((CHOOSE u \in r.user : TRUE).role)
       IN  IF ~hasRole(allowedRoles, userRole)
           THEN Reject(r, 403, "Insufficient permissions")
           ELSE next(r)

(* ----------------------------- user routes ----------------------------- *)

\* Primary keys the store hands out.
UserIds == { Digits[i + 1] : i \in 1..MaxUsers }

\* AuthService.hashPassword: bcrypt.hash(password, SALT_ROUNDS); the hash
\* is a function of the password that is never the password itself.
hashPassword(password) == <<"$">> \o password

\* The accounts the store holds when the server starts.
SeedUsers ==
  { [id |-> "1", email |-> "a", password |-> hashPassword(<<"p">>), name |-> "A",
     role |-> admin],
    [id |-> "2", email |-> "b", password |-> hashPassword(<<"q">>), name |-> "B",
     role |-> viewer] }

\* Bodies of POST /api/users that pass validateUserData.
UserBodies ==
  { [email |-> "b", password |-> <<"r">>, name |-> "C", role |-> admin],
    [email |-> "c", password |-> <<"r">>, name |-> "C", role |-> viewer] }

\* routes/userRoutes: router.post('/', authenticateToken, createUser) and
\* router.delete('/:id', authenticateToken, deleteUser).
UserRoutes ==
  { [op |-> "createUser", stack |-> <<Mw("authenticateToken", <<>>)>>],
    [op |-> "deleteUser", stack |-> <<Mw("authenticateToken", <<>>)>>] }

\* UserController.createUser -> UserService.createUser -> repository.create:
\* the password is hashed and the row inserted under a fresh id; a
\* duplicate email violates the unique index, the error goes to next(error)
\* and errorHandler answers 500.
createUserOn(r, store) ==
  IF \E u \in store : u.email = r.body.email
  THEN [req   |-> [r EXCEPT !.stage = "done", !.status = 500, !.responses = @ + 1,
                            !.handled = TRUE],
        users |-> store]
  ELSE LET id == CHOOSE i \in UserIds : \A u \in store : u.id # i
       IN  [req   |-> [r EXCEPT !.stage = "done", !.status = 201, !.responses = @ + 1,
                                !.handled = TRUE],
            users |-> store \cup { [id |-> id, email |-> r.body.email,
                                    password |-> hashPassword(r.body.password),
                                    name |-> r.body.name, role |-> r.body.role] }]

\* UserController.deleteUser: 404 when getUserById finds nothing, else
\* UserService.deleteUser removes the row and the answer is 200.
deleteUserOn(r, store) ==
  IF ~\E u \in store : u.id = r.id
  THEN [req   |-> [r EXCEPT !.stage = "done", !.status = 404, !.responses = @ + 1,
                            !.error = "USER_MESSAGES.NOT_FOUND", !.handled = TRUE],
        users |-> store]
  ELSE [req   |-> [r EXCEPT !.stage = "done", !.status = 200, !.responses = @ + 1,
                            !.handled = TRUE],
        users |-> { u \in store : u.id # r.id }]

(* -------------------------------- login -------------------------------- *)

\* bcrypt.compare(password, hash): was the hash made from the password?
bcrypt_compare(password, hash) == hash = hashPassword(password)

\* userRepository.findByEmail(email): the row with that email (the column
\* is unique), {} for null.
findByEmail(email, store) == { u \in store : u.email = email }

\* Bodies of POST /api/auth/login that pass validateLoginCredentials (email
\* and password both present): a known or an unknown email with a right
\* password, a wrong one, or the value of the password column of the first
\* account.
LoginBodies ==
  { [email |-> e, password |-> pw] :
      e \in {"a", "b", "z"}, pw \in { <<"p">>, <<"q">>, hashPassword(<<"p">>) } }

\* The user object of an AuthResponse.
AuthUser(user) ==
  [id |-> user.id, email |-> user.email, name |-> user.name, role |-> user.role]

\* services/authService.ts AuthService.login(credentials): null ({}) or the
\* AuthResponse {user}; this AuthResponse has no token field (token |-> {}).
AuthService_login(credentials, store) ==
  LET found == findByEmail(credentials.email, store)
  IN  IF found = {}
      THEN {}
      ELSE LET user == CHOOSE u \in found : TRUE
               isPasswordValid ==
                 \/ credentials.password = user.password
                 \/ bcrypt_compare(credentials.password, user.password)
           IN  IF ~isPasswordValid
               THEN {}
               ELSE { [user |-> AuthUser(user), token |-> {}] }

\* The token variant of AuthService.login, at clock t: the same checks, then
\* jwtService.generateToken(user); the AuthResponse is {user, token}.
AuthService_login_token(credentials, store, t) ==
  LET found == findByEmail(credentials.email, store)
  IN  IF found = {}
      THEN {}
      ELSE LET user == CHOOSE u \in found : TRUE
               isPasswordValid ==
                 \/ credentials.password = user.password
                 \/ bcrypt_compare(credentials.password, user.password)
           IN  IF ~isPasswordValid
               THEN {}
               ELSE { [user |-> AuthUser(user), token |-> {generateToken(user, t)}] }

\* controllers/authController.ts loginUser, given what authService.login
\* returned: 401 for null, else res.json({success: true, data: result}).
loginUserOn(r, result) ==
  IF result = {}
  THEN [Reject(r, 401, "AUTH_MESSAGES.INVALID_CREDENTIALS") EXCEPT !.handled = TRUE]
  ELSE [r EXCEPT !.stage = "done", !.status = 200, !.responses = @ + 1,
                 !.handled = TRUE, !.data = result]

\* The record kept of a credential that a login returned.
Issued(result, t) ==
  { [token |-> tok,
     user |-> [id |-> a.user.id, email |-> a.user.email, role |-> a.user.role],
     issuedAt |-> t, ttl |-> JWT_EXPIRES_IN] : a \in result, tok \in UNION { b.token : b \in result } }

\* UserService.updateUser writing the password into the row as submitted.
updateUserOn_plaintext(id, updates, store) ==
  { IF u.id = id
    THEN [f \in DOMAIN u |-> IF f \in DOMAIN updates THEN updates[f] ELSE u[f]]
    ELSE u : u \in store }

\* UserService.updateUser(id, updates) -> userRepository.update: a password
\* among the updates is replaced by its hash, then the fields that the
\* updates name are overwritten in the row and the others kept.
updateUserOn(id, updates, store) ==
  LET updateData == IF "password" \in DOMAIN updates
                    THEN [updates EXCEPT !.password = hashPassword(@)]
                    ELSE updates
  IN  { IF u.id = id
        THEN [f \in DOMAIN u |-> IF f \in DOMAIN updateData THEN updateData[f] ELSE u[f]]
        ELSE u : u \in store }

\* The two implementations of the repositories: Sequelize models and the
\* Supabase client.
Repositories == {"Sequelize", "Supabase"}

\* UserService.updateUser(id, updates) over a repository: the store
\* afterwards and how the call ends. For an id without row Sequelize's
\* update changes nothing and findById returns null; Supabase's update ends
\* in .single(), whose error for no row is thrown.
UserService_updateUserOn(repo, id, updates, store) ==
  IF ~\E u \in store : u.id = id
  THEN [users |-> store, outcome |-> IF repo = "Supabase" THEN Threw ELSE Returned({})]
  ELSE LET after == updateUserOn(id, updates, store)
       IN  [users |-> after, outcome |-> Returned({ u \in after : u.id = id })]

\* UserController.updateUser for an id and a non-empty body that passes
\* validateUserUpdateData: 404 for null, 200 with the updated row, and 500
\* from its catch.
UserController_updateUserOn(repo, r, store) ==
  LET call == UserService_updateUserOn(repo, r.id, r.body, store)
      sent == [r EXCEPT !.stage = "done", !.responses = @ + 1, !.handled = TRUE]
  IN  [users |-> call.users,
       req   |-> IF call.outcome.threw
                 THEN [sent EXCEPT !.status = 500, !.error = "USER_MESSAGES.UPDATE_ERROR"]
                 ELSE IF call.outcome.value = {}
                 THEN [sent EXCEPT !.status = 404, !.error = "USER_MESSAGES.NOT_FOUND"]
                 ELSE [sent EXCEPT !.status = 200, !.data = call.outcome.value]]

\* Bodies of PUT /api/users/:id that pass validateUserUpdateData: with and
\* without a password, one password being the text of a stored hash.
UserUpdates ==
  { [password |-> <<"s">>],
    [role |-> admin],
    [role |-> viewer, password |-> hashPassword(<<"p">>)] }

\* userRepository.delete(id): the store afterwards and what the call
\* returns: Sequelize's User.destroy the number of rows removed, Supabase's
\* delete nothing ({} for undefined).
userRepository_delete(repo, id, store) ==
  [users    |-> { u \in store : u.id # id },
   returned |-> IF repo = "Sequelize"
                THEN {Cardinality({ u \in store : u.id = id })}
                ELSE {}]

\* JavaScript's deleted > 0: false for undefined.
GreaterThanZero(v) == \E n \in v : n > 0

\* UserService.deleteUser(id) over a repository: deleted > 0 of what the
\* repository's delete returned.
UserService_deleteUserOn(repo, id, store) ==
  LET call == userRepository_delete(repo, id, store)
  IN  [users |-> call.users, success |-> GreaterThanZero(call.returned)]

\* Role updates that pass validateUserUpdateData.
RoleUpdates == { [role |-> admin], [role |-> viewer] }

\* Middleware stacks of the admin-only business routes.
SessionStacks ==
  { <<Mw("authenticateToken", <<>>), Mw("authorize", <<admin>>)>>,
    <<Mw("authMiddleware", <<>>), Mw("authorize", <<admin>>)>> }

\* localStorage with neither item of the session.
NoItems == [auth_token |-> {}, auth_user |-> {}]

\* AuthProvider's state with token and user both null.
SignedOut == [token |-> {}, user |-> {}]

\* JSON.stringify(user) of AuthProvider's User {id, email, name, role}.
JSON_stringify(user) == <<user.id, user.email, user.name>> \o user.role

\* JSON.parse of a stored user.
JSON_parse(text) ==
  [id |-> text[1], email |-> text[2], name |-> text[3], role |-> substring(text, 3)]

\* AuthProvider's useState initialisers: user is JSON.parse of the item
\* auth_user when there is one, token is the item auth_token; each is read
\* on its own.
useStateFrom(storage) ==
  [token |-> storage.auth_token,
   user  |-> { JSON_parse(text) : text \in { x \in storage.auth_user : x # <<>> } }]

\* AuthProvider's effect on [token, user], applied to localStorage: both
\* items are written when token and user are both truthy, and both are
\* removed otherwise.
useEffectOn(state) ==
  IF ~Falsy(state.token) /\ state.user # {}
  THEN [auth_token |-> state.token,
        auth_user  |-> { JSON_stringify(u) : u \in state.user }]
  ELSE NoItems

\* AuthProvider.isAuthenticated(): !!user.
isAuthenticated == authProvider.user # {}

\* ApiClient's request interceptor: 'Bearer ' + localStorage.auth_token when
\* there is one, no Authorization header otherwise.
ClientHeader ==
  IF Falsy(localStorage.auth_token)
  THEN NoHeader
  ELSE Header(BearerPrefix \o (CHOOSE w \in localStorage.auth_token : TRUE))

\* The name of the subject-id field in the JwtPayload type that a gate
\* attaches: jwtService's JwtPayload has userId, utils/jwt's has id.
SubjectIdField(gate) == IF gate = "authMiddleware" THEN "id" ELSE "userId"

\* A property read claim[field] by downstream code: {} for undefined.
ReadSubjectId(claim, field) == IF claim.key = field THEN {claim.sub} ELSE {}

\* A handler of DELETE /api/users/:id that serves no request.
IdleDelete == [pc |-> "idle", id |-> "", status |-> 0, deleteCalls |-> 0]

(* ------------------------------ actions -------------------------------- *)

TypeOK ==
  /\ now \in 1..MaxTime
  /\ envSecret \in {ConfiguredSecret, Unset}
  /\ JWT_EXPIRES_IN \in TTLs
  /\ Cardinality(held) <= MaxCredentials
  /\ Cardinality(localStorage.auth_token) <= 1
  /\ Cardinality(localStorage.auth_user) <= 1
  /\ Cardinality(authProvider.token) <= 1
  /\ Cardinality(authProvider.user) <= 1
  /\ req.stage \in {"idle", "middleware", "handler", "done"}

Init ==
  /\ now = 1
  /\ envSecret \in {ConfiguredSecret, Unset}
  /\ JWT_EXPIRES_IN \in TTLs
  /\ held = {}
  /\ users = SeedUsers
  /\ localStorage = NoItems
  /\ authProvider = SignedOut
  /\ req = IdleReq
  /\ inflight = [h \in 1..MaxInFlight |-> IdleDelete]

\* The gates are synchronous: nothing else runs between the arrival of a
\* request and its gates' verdict, so the clock, the configuration and the
\* client move only between requests.

\* A second passes on the server clock.
Tick ==
  /\ req.stage = "idle"
  /\ now < MaxTime
  /\ now' = now + 1
  /\ UNCHANGED <<envSecret, JWT_EXPIRES_IN, held, users, localStorage, authProvider, req, inflight>>

\* The process is restarted with another JWT_EXPIRES_IN (the constant is
\* read once, at module load); the secret stays.
Restart ==
  /\ req.stage = "idle"
  /\ \E ttl \in TTLs \ {JWT_EXPIRES_IN} : JWT_EXPIRES_IN' = ttl
  /\ UNCHANGED <<now, envSecret, held, users, localStorage, authProvider, req, inflight>>

\* JwtService.generateToken issues a credential, which the client keeps.
IssueJwtService ==
  /\ req.stage = "idle"
  /\ JwtServiceLoaded
  /\ \E user \in Identities :
       held' = { [token |-> generateToken(user, now), user |-> user,
                  issuedAt |-> now, ttl |-> JWT_EXPIRES_IN] }
  /\ UNCHANGED <<now, envSecret, JWT_EXPIRES_IN, users, localStorage, authProvider, req, inflight>>

\* signToken issues a credential, which the client keeps.
IssueSignToken ==
  /\ req.stage = "idle"
  /\ \E payload \in Identities :
       held' = { [token |-> signToken(payload, now), user |-> payload,
                  issuedAt |-> now, ttl |-> JWT_EXPIRES_IN] }
  /\ UNCHANGED <<now, envSecret, JWT_EXPIRES_IN, users, localStorage, authProvider, req, inflight>>

\* A request arrives at a protected route with some Authorization header.
NewRequest ==
  /\ req.stage = "idle"
  /\ \E stack \in Stacks, h \in Headers :
       /\ \A i \in DOMAIN stack :
            stack[i].name \in {"authenticateToken", "optionalAuth"} => JwtServiceLoaded
       /\ req' = [IdleReq EXCEPT !.stage = "middleware", !.stack = stack, !.pos = 1,
                                 !.op = "business", !.header = h, !.usersBefore = users]
  /\ UNCHANGED <<now, envSecret, JWT_EXPIRES_IN, held, users, localStorage, authProvider, inflight>>

authenticateToken ==
  /\ At("authenticateToken")
  /\ req' = authenticateTokenOn(req, now)
  /\ UNCHANGED <<now, envSecret, JWT_EXPIRES_IN, held, users, localStorage, authProvider, inflight>>

authMiddleware ==
  /\ At("authMiddleware")
  /\ req' = authMiddlewareOn(req, now)
  /\ UNCHANGED <<now, envSecret, JWT_EXPIRES_IN, held, users, localStorage, authProvider, inflight>>

optionalAuth ==
  /\ At("optionalAuth")
  /\ req' = optionalAuthOn(req, now)
  /\ UNCHANGED <<now, envSecret, JWT_EXPIRES_IN, held, users, localStorage, authProvider, inflight>>

authorize ==
  /\ At("authorize")
  /\ req' = authorizeOn(req.stack[req.pos].allowedRoles, req)
  /\ UNCHANGED <<now, envSecret, JWT_EXPIRES_IN, held, users, localStorage, authProvider, inflight>>

\* The business handler behind the gates answers the request.
Handler ==
  /\ req.stage = "handler"
  /\ req.op = "business"
  /\ req' = [req EXCEPT !.stage = "done", !.status = 200, !.responses = @ + 1,
                        !.handled = TRUE]
  /\ UNCHANGED <<now, envSecret, JWT_EXPIRES_IN, held, users, localStorage, authProvider, inflight>>

\* The response has been sent; the server is ready for the next request.
Finish ==
  /\ req.stage = "done"
  /\ req' = IdleReq
  /\ UNCHANGED <<now, envSecret, JWT_EXPIRES_IN, held, users, localStorage, authProvider, inflight>>

Next ==
  \/ Tick
  \/ Restart
  \/ IssueJwtService
  \/ IssueSignToken
  \/ NewRequest
  \/ authenticateToken
  \/ authMiddleware
  \/ optionalAuth
  \/ authorize
  \/ Handler
  \/ Finish

Spec == Init /\ [][Next]_vars

\* A request arrives at POST /api/users or DELETE /api/users/:id.
NewUserRequest ==
  /\ req.stage = "idle"
  /\ JwtServiceLoaded
  /\ \E route \in UserRoutes, h \in Headers, id \in UserIds, body \in UserBodies :
       /\ route.op = "createUser" => id = "1" /\ Cardinality(users) < MaxUsers
       /\ route.op = "deleteUser" => body = CHOOSE b \in UserBodies : TRUE
       /\ req' = [IdleReq EXCEPT !.stage = "middleware", !.stack = route.stack, !.pos = 1,
                                 !.op = route.op, !.header = h, !.usersBefore = users,
                                 !.id = IF route.op = "deleteUser" THEN id ELSE "",
                                 !.body = IF route.op = "createUser" THEN body ELSE NoBody]
  /\ UNCHANGED <<now, envSecret, JWT_EXPIRES_IN, held, users, localStorage, authProvider, inflight>>

CreateUser ==
  /\ req.stage = "handler"
  /\ req.op = "createUser"
  /\ req' = createUserOn(req, users).req
  /\ users' = createUserOn(req, users).users
  /\ UNCHANGED <<now, envSecret, JWT_EXPIRES_IN, held, localStorage, authProvider, inflight>>

DeleteUser ==
  /\ req.stage = "handler"
  /\ req.op = "deleteUser"
  /\ req' = deleteUserOn(req, users).req
  /\ users' = deleteUserOn(req, users).users
  /\ UNCHANGED <<now, envSecret, JWT_EXPIRES_IN, held, localStorage, authProvider, inflight>>

NextRoutes ==
  \/ IssueJwtService
  \/ IssueSignToken
  \/ NewUserRequest
  \/ authenticateToken
  \/ CreateUser
  \/ DeleteUser
  \/ Finish

\* The user routes of userRoutes behind their gates, at a fixed clock.
SpecRoutes == Init /\ [][NextRoutes]_vars

\* POST /api/auth/login served by loginUser over services/authService.ts.
LoginUser ==
  /\ req.stage = "idle"
  /\ \E body \in LoginBodies :
       req' = loginUserOn([IdleReq EXCEPT !.op = "login", !.body = [NoBody EXCEPT
                                 !.email = body.email, !.password = body.password],
                                 !.usersBefore = users],
                          AuthService_login(body, users))
  /\ UNCHANGED <<now, envSecret, JWT_EXPIRES_IN, held, users, localStorage, authProvider, inflight>>

\* POST /api/auth/login served by loginUser over the token variant of
\* AuthService; the credential it returns exists from now on.
LoginUserToken ==
  /\ req.stage = "idle"
  /\ JwtServiceLoaded
  /\ \E body \in LoginBodies :
       LET result == AuthService_login_token(body, users, now)
       IN  /\ Cardinality(held \cup Issued(result, now)) <= MaxCredentials
           /\ held' = held \cup Issued(result, now)
           /\ req' = loginUserOn([IdleReq EXCEPT !.op = "loginToken", !.body = [NoBody EXCEPT
                                     !.email = body.email, !.password = body.password],
                                     !.usersBefore = users],
                                 result)
  /\ UNCHANGED <<now, envSecret, JWT_EXPIRES_IN, users, localStorage, authProvider, inflight>>

\* AuthProvider.login(token, user) with the data of a successful login:
\* token and user are set, and the effect that follows the render writes
\* them to localStorage.
StoreCredential ==
  /\ req.stage = "done"
  /\ req.op = "loginToken"
  /\ req.status = 200
  /\ authProvider' = [token |-> UNION { a.token : a \in req.data },
                      user  |-> { a.user : a \in req.data }]
  /\ localStorage' = useEffectOn(authProvider')
  /\ req' = IdleReq
  /\ UNCHANGED <<now, envSecret, JWT_EXPIRES_IN, held, users, inflight>>

\* AuthProvider.logout(): token and user are set to null, and the effect
\* that follows the render removes both items.
Logout ==
  /\ req.stage = "idle"
  /\ authProvider # SignedOut
  /\ authProvider' = SignedOut
  /\ localStorage' = useEffectOn(authProvider')
  /\ UNCHANGED <<now, envSecret, JWT_EXPIRES_IN, held, users, req, inflight>>

\* ApiClient's response interceptor keeping the item auth_user.
ResponseInterceptor_keepsUser ==
  /\ req.stage = "done"
  /\ req.op = "business"
  /\ req.status \in {401, 403}
  /\ req.header = ClientHeader
  /\ localStorage' = [localStorage EXCEPT !.auth_token = {}]
  /\ authProvider' = useStateFrom(localStorage')
  /\ req' = IdleReq
  /\ UNCHANGED <<now, envSecret, JWT_EXPIRES_IN, held, users, inflight>>

\* ApiClient's response interceptor on a 401 or 403 to a request of the
\* client: both items are removed and window.location.href = '/' loads the
\* page anew, so that AuthProvider starts from the emptied localStorage.
ResponseInterceptor ==
  /\ req.stage = "done"
  /\ req.op = "business"
  /\ req.status \in {401, 403}
  /\ req.header = ClientHeader
  /\ localStorage' = NoItems
  /\ authProvider' = useStateFrom(localStorage')
  /\ req' = IdleReq
  /\ UNCHANGED <<now, envSecret, JWT_EXPIRES_IN, held, users, inflight>>

\* UserService.updateUser changes the role of an account.
UserService_updateUser ==
  /\ req.stage = "idle"
  /\ \E u \in users, updates \in RoleUpdates :
       /\ updates.role # u.role
       /\ users' = updateUserOn(u.id, updates, users)
  /\ UNCHANGED <<now, envSecret, JWT_EXPIRES_IN, held, localStorage, authProvider, req, inflight>>

\* UserService.deleteUser removes an account.
UserService_deleteUser ==
  /\ req.stage = "idle"
  /\ \E u \in users : users' = users \ {u}
  /\ UNCHANGED <<now, envSecret, JWT_EXPIRES_IN, held, localStorage, authProvider, req, inflight>>

\* A request arrives at an admin-only route: the client's own, or one that
\* presents a credential issued earlier.
NewSessionRequest ==
  /\ req.stage = "idle"
  /\ \E stack \in SessionStacks,
        h \in {ClientHeader} \cup { Header(BearerPrefix \o c.token) : c \in held } :
       /\ stack[1].name = "authenticateToken" => JwtServiceLoaded
       /\ req' = [IdleReq EXCEPT !.stage = "middleware", !.stack = stack, !.pos = 1,
                                 !.op = "business", !.header = h, !.usersBefore = users]
  /\ UNCHANGED <<now, envSecret, JWT_EXPIRES_IN, held, users, localStorage, authProvider, inflight>>

NextSession ==
  \/ Tick
  \/ LoginUserToken
  \/ StoreCredential
  \/ Logout
  \/ ResponseInterceptor
  \/ UserService_updateUser
  \/ UserService_deleteUser
  \/ NewSessionRequest
  \/ authenticateToken
  \/ authMiddleware
  \/ authorize
  \/ Handler
  \/ Finish

\* A deployment that configures the secret and a positive lifetime.
InitSession ==
  /\ Init
  /\ envSecret = ConfiguredSecret
  /\ JWT_EXPIRES_IN > 0

\* Logins, account changes and requests to admin-only routes over time.
SpecSession == InitSession /\ [][NextSession]_vars

NextLogin ==
  \/ Tick
  \/ LoginUser
  \/ LoginUserToken
  \/ StoreCredential
  \/ UserService_updateUser
  \/ UserService_deleteUser
  \/ Finish

\* POST /api/auth/login over both AuthService variants, while accounts change.
SpecLogin == Init /\ [][NextLogin]_vars


\* What localStorage may hold when the page is loaded: nothing, a session
\* left by an earlier visit (whose token the server no longer accepts), or
\* one of its two items alone.
StorageContents ==
  { [auth_token |-> t, auth_user |-> u] :
      t \in { {}, {Noise} },
      u \in { {}, { JSON_stringify(AuthUser(v)) : v \in { w \in SeedUsers : w.id = "1" } } } }

\* The page is loaded over some localStorage: AuthProvider initialises its
\* state from it and its effect runs after the first render.
InitClient ==
  /\ now = 1
  /\ envSecret = ConfiguredSecret
  /\ JWT_EXPIRES_IN \in { ttl \in TTLs : ttl > 0 }
  /\ held = {}
  /\ users = SeedUsers
  /\ req = IdleReq
  /\ inflight = [h \in 1..MaxInFlight |-> IdleDelete]
  /\ \E contents \in StorageContents :
       /\ authProvider = useStateFrom(contents)
       /\ localStorage = useEffectOn(authProvider)

\* The client sends a request to an admin-only route through ApiClient.
ApiClientRequest ==
  /\ req.stage = "idle"
  /\ \E stack \in SessionStacks :
       req' = [IdleReq EXCEPT !.stage = "middleware", !.stack = stack, !.pos = 1,
                              !.op = "business", !.header = ClientHeader,
                              !.usersBefore = users]
  /\ UNCHANGED <<now, envSecret, JWT_EXPIRES_IN, held, users, localStorage, authProvider, inflight>>

\* ApiClient's response interceptor on any other response, and the answer
\* to a failed login: the session is left as it is.
ResponseDelivered ==
  /\ req.stage = "done"
  /\ ~(req.op = "business" /\ req.status \in {401, 403})
  /\ ~(req.op = "loginToken" /\ req.status = 200)
  /\ req' = IdleReq
  /\ UNCHANGED <<now, envSecret, JWT_EXPIRES_IN, held, users, localStorage, authProvider, inflight>>

NextClient ==
  \/ Tick
  \/ LoginUserToken
  \/ StoreCredential
  \/ Logout
  \/ ApiClientRequest
  \/ authenticateToken
  \/ authMiddleware
  \/ authorize
  \/ Handler
  \/ ResponseInterceptor
  \/ ResponseDelivered

\* One browser client of the server: page load, logins, logout, requests.
SpecClient == InitClient /\ [][NextClient]_vars

\* A request to POST /api/users or PUT /api/users/:id that the Access Gate
\* has let through reaches its controller.
NewStoreRequest ==
  /\ req.stage = "idle"
  /\ \/ \E body \in UserBodies :
          /\ Cardinality(users) < MaxUsers
          /\ req' = [IdleReq EXCEPT !.stage = "handler", !.pos = 1, !.op = "createUser",
                                    !.body = body, !.usersBefore = users]
     \/ \E id \in UserIds, updates \in UserUpdates :
          req' = [IdleReq EXCEPT !.stage = "handler", !.pos = 1, !.op = "updateUser",
                                 !.id = id, !.body = updates, !.usersBefore = users]
  /\ UNCHANGED <<now, envSecret, JWT_EXPIRES_IN, held, users, localStorage, authProvider, inflight>>

UpdateUser ==
  /\ req.stage = "handler"
  /\ req.op = "updateUser"
  /\ \E repo \in Repositories :
       /\ req' = UserController_updateUserOn(repo, req, users).req
       /\ users' = UserController_updateUserOn(repo, req, users).users
  /\ UNCHANGED <<now, envSecret, JWT_EXPIRES_IN, held, localStorage, authProvider, inflight>>

\* UserService.deleteUser(id) is called and returns.
ServiceDeleteUser ==
  /\ req.stage = "idle"
  /\ \E repo \in Repositories, id \in UserIds :
       LET call == UserService_deleteUserOn(repo, id, users)
       IN  /\ users' = call.users
           /\ req' = [IdleReq EXCEPT !.stage = "done", !.op = "UserService.deleteUser",
                                     !.id = id, !.usersBefore = users,
                                     !.data = {[repository |-> repo, success |-> call.success]}]
  /\ UNCHANGED <<now, envSecret, JWT_EXPIRES_IN, held, localStorage, authProvider, inflight>>

NextStore ==
  \/ NewStoreRequest
  \/ CreateUser
  \/ UpdateUser
  \/ ServiceDeleteUser
  \/ Finish

\* The users table under createUser, updateUser and deleteUser.
SpecStore == InitSession /\ [][NextStore]_vars

\* A DELETE /api/users/:id that the Access Gate has let through reaches
\* UserController.deleteUser, which calls userService.getUserById(id) and
\* awaits it.
DeleteArrives(h) ==
  /\ inflight[h].pc = "idle"
  /\ \E id \in UserIds :
       inflight' = [inflight EXCEPT ![h] = [IdleDelete EXCEPT !.pc = "getUserById", !.id = id]]
  /\ UNCHANGED <<now, envSecret, JWT_EXPIRES_IN, held, users, localStorage, authProvider, req>>

\* getUserById reads the store and the handler resumes: without a row it
\* answers 404; with one it calls userService.deleteUser(id) and awaits it.
DeleteGetUserById(h) ==
  /\ inflight[h].pc = "getUserById"
  /\ inflight' = [inflight EXCEPT ![h] =
                    IF \E u \in users : u.id = inflight[h].id
                    THEN [@ EXCEPT !.pc = "deleteUser", !.deleteCalls = @ + 1]
                    ELSE [@ EXCEPT !.pc = "done", !.status = 404]]
  /\ UNCHANGED <<now, envSecret, JWT_EXPIRES_IN, held, users, localStorage, authProvider, req>>

\* The repository's delete runs and the handler resumes: it answers 200
\* whatever deleteUser returned.
DeleteDeleteUser(h) ==
  /\ inflight[h].pc = "deleteUser"
  /\ \E repo \in Repositories :
       users' = UserService_deleteUserOn(repo, inflight[h].id, users).users
  /\ inflight' = [inflight EXCEPT ![h] = [@ EXCEPT !.pc = "done", !.status = 200]]
  /\ UNCHANGED <<now, envSecret, JWT_EXPIRES_IN, held, localStorage, authProvider, req>>

\* The answer has been sent and the handler is free again.
DeleteAnswered(h) ==
  /\ inflight[h].pc = "done"
  /\ inflight' = [inflight EXCEPT ![h] = IdleDelete]
  /\ UNCHANGED <<now, envSecret, JWT_EXPIRES_IN, held, users, localStorage, authProvider, req>>

NextDelete ==
  \E h \in 1..MaxInFlight :
    \/ DeleteArrives(h)
    \/ DeleteGetUserById(h)
    \/ DeleteDeleteUser(h)
    \/ DeleteAnswered(h)

\* DELETE /api/users/:id handlers interleaved at their awaits.
SpecDelete == InitSession /\ [][NextDelete]_vars

\* Payloads as they reach signToken at run time, where the JwtPayload type
\* is erased: with a role, with an empty role, and without the role field.
LoosePayloads ==
  { [id |-> "1", email |-> "a", role |-> r] : r \in {admin, viewer, <<>>, undefined} }

\* signToken issues a credential for a loosely typed payload.
IssueLoose ==
  /\ req.stage = "idle"
  /\ \E payload \in LoosePayloads :
       held' = { [token |-> signToken(payload, now), user |-> payload,
                  issuedAt |-> now, ttl |-> JWT_EXPIRES_IN] }
  /\ UNCHANGED <<now, envSecret, JWT_EXPIRES_IN, users, localStorage, authProvider, req, inflight>>

\* A request arrives at a route behind authMiddleware and
\* authorize(...allowedRoles), with an issued credential or with none.
NewRoleRequest ==
  /\ req.stage = "idle"
  /\ \E L \in AllowLists, h \in {NoHeader} \cup { Header(BearerPrefix \o c.token) : c \in held } :
       req' = [IdleReq EXCEPT !.stage = "middleware", !.pos = 1, !.op = "business",
                              !.stack = <<Mw("authMiddleware", <<>>), Mw("authorize", L)>>,
                              !.header = h, !.usersBefore = users]
  /\ UNCHANGED <<now, envSecret, JWT_EXPIRES_IN, held, users, localStorage, authProvider, inflight>>

NextRoleGate ==
  \/ Tick
  \/ IssueLoose
  \/ NewRoleRequest
  \/ authMiddleware
  \/ authorize
  \/ Handler
  \/ Finish

\* The Role Gate behind authMiddleware, for claims with and without a role.
SpecRoleGate == Init /\ [][NextRoleGate]_vars

(* ------------------------------- claims -------------------------------- *)

\* The first layer of the request's stack is an enforcing Access Gate.
EnforcingGate ==
  /\ req.stage # "idle"
  /\ req.stack # <<>>
  /\ req.stack[1].name \in {"authenticateToken", "authMiddleware"}

\* ... and that gate has given its verdict: it called next (pos > 1) or it
\* answered (done at position 1).
AccessGateActed == EnforcingGate /\ (req.pos > 1 \/ req.stage = "done")

\* The header carries the required prefix.
Prefixed(h) == h.present /\ startsWith(h.value, BearerPrefix)

\* c is a credential the server issued and that has not expired: its
\* signature is the server's and the time is before issuance + TTL.
GenuineUnexpired(c) == \E h \in held : c = h.token /\ now < h.issuedAt + h.ttl

\* The request carries 'Bearer ' followed by the held credential.
Carries(h) == req.stage # "idle" /\ req.header = Header(BearerPrefix \o h.token)

\* The claim c names the identity i.
Names(c, i) == c.sub = i.id /\ c.email = i.email /\ c.role = i.role

\* C1: once the Access Gate has acted, an identity is attached and the next
\* stage reached exactly when the header is present, starts with 'Bearer '
\* and the rest is a credential of the server that has not expired; in
\* particular never for 'Bearer ' alone.
C1_AccessGateSafety ==
  AccessGateActed =>
    LET ok == Prefixed(req.header) /\ GenuineUnexpired(substring(req.header.value, 7))
    IN  /\ (req.user # {}) <=> ok
        /\ (req.pos > 1) <=> ok
        /\ req.header.value = BearerPrefix => req.user = {} /\ req.pos = 1

\* C1 witness: authenticateToken has let a request with a valid credential through.
C1_Witness ==
  /\ AccessGateActed
  /\ req.stack[1].name = "authenticateToken"
  /\ req.user # {}
  /\ req.pos > 1

\* C2: a credential verified before its expiry yields a claim with the id,
\* email and role of the identity it was issued for, in both Credential
\* Service variants and at the gate that verified it.
C2_RoundTrip ==
  \A h \in held :
    now < h.issuedAt + h.ttl =>
      /\ \E c \in verifyToken(h.token, now) : Names(c, h.user)
      /\ JwtServiceLoaded => \E c \in JwtService_verifyToken(h.token, now) : Names(c, h.user)
      /\ AccessGateActed /\ Carries(h) => \E c \in req.user : Names(c, h.user)

\* C2 witness: a gate has verified a credential a second after it was issued.
C2_Witness ==
  \E h \in held :
    /\ h.issuedAt < now
    /\ now < h.issuedAt + h.ttl
    /\ AccessGateActed
    /\ Carries(h)

\* C3: a request whose header is absent or lacks the 'Bearer ' prefix is
\* answered 401 'Authentication required' and the handler does not run.
C3_NoBearerIs401AuthenticationRequired ==
  AccessGateActed /\ ~Prefixed(req.header) =>
    /\ req.stage = "done"
    /\ req.status = 401
    /\ req.error = "Authentication required"
    /\ ~req.handled

\* C4: a request with 'Bearer <credential>' whose (non-empty) credential
\* fails verification is answered 401 'Invalid or expired token' by every
\* Access Gate, and the handler does not run.
C4_BadCredentialIs401InvalidOrExpired ==
  AccessGateActed /\ Prefixed(req.header)
                  /\ substring(req.header.value, 7) # <<>>
                  /\ jwt_verify(substring(req.header.value, 7), JWT_SECRET, now).err # "" =>
    /\ req.stage = "done"
    /\ req.status = 401
    /\ req.error = "Invalid or expired token"
    /\ ~req.handled

\* Position of authorize in the request's stack, 0 if it has none.
RoleGateIndex ==
  IF \E i \in DOMAIN req.stack : req.stack[i].name = "authorize"
  THEN CHOOSE i \in DOMAIN req.stack : req.stack[i].name = "authorize"
  ELSE 0

\* authorize has given its verdict on the request.
RoleGateActed ==
  /\ req.stage # "idle"
  /\ RoleGateIndex > 0
  /\ req.pos > RoleGateIndex \/ (req.stage = "done" /\ req.pos = RoleGateIndex)

\* Some entry of the request's allow-list equals the role, both lower-cased.
RoleAllowed(role) ==
  LET L == req.stack[RoleGateIndex].allowedRoles
  IN  \E i \in DOMAIN L : toLowerCase(L[i]) = toLowerCase(role)

\* C5: when authorize has run on a request without identity, the answer is
\* 401 'Authentication required' and the next stage was not called.
C5_RoleGateFailsClosed ==
  RoleGateActed /\ req.user = {} =>
    /\ req.stage = "done"
    /\ req.status = 401
    /\ req.error = "Authentication required"
    /\ req.pos = RoleGateIndex
    /\ req.nexts = RoleGateIndex - 1
    /\ ~req.handled

\* C5 witness: authorize has run on a request that optionalAuth left
\* anonymous although it carried a header.
C5_Witness ==
  /\ RoleGateActed
  /\ req.user = {}
  /\ req.stack[1].name = "optionalAuth"
  /\ req.header.present

\* C6: when authorize has run on an identity whose lower-cased role is not
\* in the lower-cased allow-list, the answer is 403 'Insufficient
\* permissions' and the next stage was not called.
C6_RoleMismatchIs403 ==
  RoleGateActed =>
    \A u \in req.user :
      ~RoleAllowed(u.role) =>
        /\ req.stage = "done"
        /\ req.status = 403
        /\ req.error = "Insufficient permissions"
        /\ req.pos = RoleGateIndex
        /\ ~req.handled

\* C6 witness: a valid viewer credential on a route allow-listing admin and editor.
C6_Witness ==
  /\ RoleGateActed
  /\ req.stack[RoleGateIndex].allowedRoles = <<admin, editor>>
  /\ \E u \in req.user : u.role = viewer

\* C7: authorize lets an identity proceed exactly when its lower-cased role
\* equals some lower-cased entry of the allow-list.
C7_RoleComparisonCaseInsensitive ==
  RoleGateActed =>
    \A u \in req.user : (req.pos > RoleGateIndex) <=> RoleAllowed(u.role)

\* C7 witness: role 'admin' has passed a gate whose allow-list spells it
\* 'Admin', or role 'ADMIN' a gate allow-listing 'admin'.
C7_Witness ==
  /\ RoleGateActed
  /\ req.pos > RoleGateIndex
  /\ \E u \in req.user :
       \/ u.role = admin /\ req.stack[RoleGateIndex].allowedRoles = <<Admin>>
       \/ u.role = ADMIN /\ req.stack[RoleGateIndex].allowedRoles = <<admin>>

\* C8: on POST /api/users and DELETE /api/users/:id a valid credential
\* whose role is not admin is answered 403 'Insufficient permissions', the
\* controller is not invoked and the user store is unchanged.
C8_UserWritesAdminOnly ==
  req.op \in {"createUser", "deleteUser"} =>
    \A u \in req.user :
      toLowerCase(u.role) # admin =>
        /\ req.stage # "handler"
        /\ req.stage = "done" =>
             /\ req.status = 403
             /\ req.error = "Insufficient permissions"
             /\ ~req.handled
             /\ users = req.usersBefore

\* C9: a credential whose issuance time + TTL has passed fails verification
\* although its signature is the server's, in both Credential Service
\* variants, and no gate attaches an identity for it; with TTL -1 this is so
\* from the moment of issuance.
C9_ExpiredFails ==
  \A h \in held :
    now >= h.issuedAt + h.ttl =>
      /\ jwt_verify(h.token, JWT_SECRET, now).err = "Expired"
      /\ verifyToken(h.token, now) = {}
      /\ JwtServiceLoaded => JwtService_verifyToken(h.token, now) = {}
      /\ Carries(h) => req.user = {}

\* C9 witness: a gate has rejected a credential issued with TTL -1 in the
\* second of its issuance.
C9_Witness ==
  \E h \in held :
    /\ h.ttl = -1
    /\ now = h.issuedAt
    /\ AccessGateActed
    /\ Carries(h)

\* C10: the credential stores iat = T and exp = T + TTL as of issuance, and
\* it verifies at the current time t exactly when t < T + TTL, whatever
\* JWT_EXPIRES_IN is configured now.
C10_ValidityWindow ==
  \A h \in held :
    LET c == DecodePayload(SubSeq(h.token, 1, DotIndex(h.token) - 1))
    IN  /\ c.iat = h.issuedAt
        /\ c.exp = h.issuedAt + h.ttl
        /\ (verifyToken(h.token, now) # {}) <=> (now < h.issuedAt + h.ttl)
        /\ JwtServiceLoaded =>
             ((JwtService_verifyToken(h.token, now) # {}) <=> (now < h.issuedAt + h.ttl))

\* C10 witness: a credential issued with a positive TTL is inside its window
\* a second after issuance, while the server is configured with TTL -1.
C10_Witness ==
  \E h \in held :
    /\ JwtServiceLoaded
    /\ JWT_EXPIRES_IN # h.ttl
    /\ h.issuedAt < now
    /\ now < h.issuedAt + h.ttl

(* ------------------------- claims C11 .. C20 --------------------------- *)

\* Characters a tampering client writes over a character of a credential.
TamperAlphabet == {"x", "0", "9", ".", "U", "k", "a"}

\* The credential w with its i-th character replaced by ch.
Substituted(w, i, ch) == [w EXCEPT ![i] = ch]

\* What can be made of the credential w without the server's secret: any one
\* character replaced (in the payload, the separator or the signature), any
\* proper prefix (truncation), the role rewritten under the old signature,
\* and the same payload signed under another secret.
Tampered(w) ==
  ({ Substituted(w, i, ch) : i \in DOMAIN w, ch \in TamperAlphabet }
   \cup { SubSeq(w, 1, n) : n \in 0..(Len(w) - 1) }
   \cup { RoleRewritten(w), ForeignSigned(w) }) \ {w}

\* The request carries 'Bearer ' followed by the string c.
CarriesString(c) == req.stage # "idle" /\ req.header = Header(BearerPrefix \o c)

\* c differs from the credential w in one character, or is a proper prefix
\* of it, or is w with the role rewritten or signed under another secret.
TamperedFrom(c, w) ==
  /\ c # w
  /\ \/ Len(c) < Len(w) /\ c = SubSeq(w, 1, Len(c))
     \/ Len(c) = Len(w) /\ Cardinality({ i \in DOMAIN w : c[i] # w[i] }) = 1
     \/ c = RoleRewritten(w)
     \/ c = ForeignSigned(w)

\* C11: whatever is made of an issued credential by changing its payload or
\* its signature segment, by truncating it or by signing its payload under
\* another secret fails verification in both Credential Service variants,
\* and no gate attaches an identity for it. (Verification is a function of
\* the string, the secret and the clock, none of which moves while a request
\* is served: the strings are enumerated between requests.)
C11_TamperSensitivity ==
  \A h \in held :
    /\ req.stage = "idle" =>
         \A c \in Tampered(h.token) :
           /\ TamperedFrom(c, h.token)
           /\ verifyToken(c, now) = {}
           /\ JwtServiceLoaded => JwtService_verifyToken(c, now) = {}
    /\ req.stage # "idle" /\ Prefixed(req.header)
                          /\ TamperedFrom(substring(req.header.value, 7), h.token) =>
         req.user = {}

\* C11 witness: an Access Gate has rejected an unexpired viewer's credential
\* whose role was rewritten to admin under the old signature.
C11_Witness ==
  \E h \in held :
    /\ now < h.issuedAt + h.ttl
    /\ h.user.role = viewer
    /\ CarriesString(RoleRewritten(h.token))
    /\ AccessGateActed
    /\ req.stage = "done"

\* The signature segment of a credential and its payload segment.
SignatureOf(w) == SubSeq(w, DotIndex(w) + 1, Len(w))

PayloadOf(w) == SubSeq(w, 1, DotIndex(w) - 1)

\* C12: when the signing secret is not configured, no credential is signed
\* with a default secret and none is verified with one.
C12_NoDefaultSecret ==
  /\ \A h \in held : SignatureOf(h.token) # Hmac(FallbackSecret, PayloadOf(h.token))
  /\ envSecret = Unset => req.user = {}

\* C15: verify reports the cause of a failure to its caller: Malformed for
\* the empty string and for noise, InvalidSignature for a payload signed
\* under another secret (also when that payload has expired: the signature
\* is checked first), Expired for a credential of the server whose expiry
\* has passed.
C15_TypedFailures ==
  \A h \in held :
    LET expired == now >= h.issuedAt + h.ttl
    IN  /\ verifyToken_failure(<<>>, now) = "Malformed"
        /\ verifyToken_failure(Noise, now) = "Malformed"
        /\ verifyToken_failure(ForeignSigned(h.token), now) = "InvalidSignature"
        /\ expired => verifyToken_failure(h.token, now) = "Expired"
        /\ JwtServiceLoaded =>
             /\ JwtService_verifyToken_failure(<<>>, now) = "Malformed"
             /\ JwtService_verifyToken_failure(Noise, now) = "Malformed"
             /\ JwtService_verifyToken_failure(ForeignSigned(h.token), now) = "InvalidSignature"
             /\ expired => JwtService_verifyToken_failure(h.token, now) = "Expired"

\* Why the credential that follows 'Bearer ' in the header h fails when a
\* gate hands it to verify ("" when the header has no such credential or
\* the credential verifies).
FailureCause(h) ==
  IF Prefixed(h) /\ substring(h.value, 7) # <<>>
  THEN jwt_verify(substring(h.value, 7), JWT_SECRET, now).err
  ELSE ""

\* The status and body with which the Access Gate 'name' answers a request
\* whose header is h.
GateAnswer(name, h) ==
  LET r == [IdleReq EXCEPT !.stage = "middleware", !.stack = <<Mw(name, <<>>)>>,
                           !.pos = 1, !.header = h]
      a == IF name = "authenticateToken"
           THEN authenticateTokenOn(r, now)
           ELSE authMiddlewareOn(r, now)
  IN  <<a.status, a.error>>

OptionalGateActed ==
  /\ req.stage # "idle"
  /\ req.stack # <<>>
  /\ req.stack[1].name = "optionalAuth"
  /\ req.pos > 1 \/ req.stage = "done"

\* C17: once optionalAuth has run, it has called the next stage (once: every
\* layer passed accounts for one call) and has not answered; right after it
\* no response exists; and an identity is attached exactly when the header
\* starts with 'Bearer ' and the rest is an unexpired credential of the
\* server.
C17_OptionalMode ==
  OptionalGateActed =>
    /\ req.pos > 1
    /\ req.nexts = req.pos - 1
    /\ req.responses <= 1
    /\ req.pos = 2 /\ req.stage # "done" => req.responses = 0 /\ req.status = 0
    /\ (req.user # {}) <=>
         (Prefixed(req.header) /\ GenuineUnexpired(substring(req.header.value, 7)))

\* C17 witness: a request whose credential has expired has reached the
\* handler behind optionalAuth without identity.
C17_Witness ==
  /\ OptionalGateActed
  /\ FailureCause(req.header) = "Expired"
  /\ req.stage = "handler"
  /\ req.user = {}

\* The account that the credential h was issued for has this role in the
\* identity store now.
StoreRole(h, role) == \E u \in users : u.id = h.user.id /\ u.role = role

\* C13: a request presenting an unexpired credential is authenticated and
\* authorized with the role that the credential embeds, which is the role
\* the account had at the login, whatever role the account's row holds now.
C13_RoleSnapshot ==
  \A h \in held :
    /\ req.stage = "idle" => DecodePayload(PayloadOf(h.token)).role = h.user.role
    /\ Carries(h) /\ now < h.issuedAt + h.ttl =>
         /\ AccessGateActed => \E c \in req.user : c.role = h.user.role
         /\ RoleGateActed => ((req.pos > RoleGateIndex) <=> RoleAllowed(h.user.role))

\* C13 witness: a credential issued to an admin has passed authorize('admin')
\* after the account was made a viewer.
C13_Witness ==
  \E h \in held :
    /\ h.user.role = admin
    /\ StoreRole(h, viewer)
    /\ Carries(h)
    /\ RoleGateActed
    /\ req.pos > RoleGateIndex

\* C14: an issued credential verifies exactly while it has not expired, and
\* while so it passes the Access Gate, whatever has happened to the account,
\* to the client's storage and to the other credentials since. (Verification
\* is a function of the string, the secret and the clock, none of which
\* moves while a request is served: it is evaluated between requests and at
\* the gate.)
C14_ExpiryOnlyInvalidation ==
  \A h \in held :
    LET unexpired == now < h.issuedAt + h.ttl
    IN  /\ req.stage = "idle" =>
             /\ (verifyToken(h.token, now) # {}) <=> unexpired
             /\ JwtServiceLoaded =>
                  ((JwtService_verifyToken(h.token, now) # {}) <=> unexpired)
        /\ Carries(h) /\ AccessGateActed =>
             /\ (req.user # {}) <=> unexpired
             /\ (req.pos > 1) <=> unexpired

\* C14 witness: a credential has passed the Access Gate after its account
\* was deleted, the client logged out and another login took place.
C14_Witness ==
  \E h \in held :
    /\ ~\E u \in users : u.id = h.user.id
    /\ localStorage = NoItems
    /\ \E g \in held : g.user.id # h.user.id /\ g.issuedAt >= h.issuedAt
    /\ Carries(h)
    /\ AccessGateActed
    /\ req.pos > 1

\* A login has been answered.
LoginAnswered == req.stage = "done" /\ req.op \in {"login", "loginToken"}

\* The submitted email is an account's and the submitted password verifies
\* against that account's stored hash.
ValidCredentials(u) ==
  /\ u.email = req.body.email
  /\ bcrypt_compare(req.body.password, u.password)

\* C18: a login returns an identity (and a token) only if an account with
\* the submitted email exists and the submitted password hashes to that
\* account's stored password; submitting the stored value itself does not
\* authenticate.
C18_LoginVerifiesPassword ==
  LoginAnswered /\ req.data # {} => \E u \in req.usersBefore : ValidCredentials(u)

\* C19: a login with valid credentials is answered 200 with data that
\* contains a token and the account's id, email, name and role.
C19_LoginResponse ==
  LoginAnswered =>
    \A u \in req.usersBefore :
      ValidCredentials(u) =>
        /\ req.status = 200
        /\ \E a \in req.data : a.user = AuthUser(u) /\ a.token # {}

\* C20: a credential that a login returned, presented as 'Bearer
\* <credential>' before its expiry, passes the Access Gate, and the attached
\* claim gives the account's email and role of the login and, under the
\* subject-id field of the gate's JwtPayload, its id.
C20_EndToEnd ==
  \A h \in held :
    now < h.issuedAt + h.ttl /\ Carries(h) /\ AccessGateActed =>
      /\ req.pos > 1
      /\ \E c \in req.user :
           /\ c.email = h.user.email
           /\ c.role = h.user.role
           /\ ReadSubjectId(c, SubjectIdField(req.stack[1].name)) = {h.user.id}

(* ------------------------- claims C21 .. C30 --------------------------- *)

\* C21: decodeToken never throws: it returns null for the empty string and
\* for a string that is no credential, and for every credential made of an
\* issued one it returns the embedded payload, whether or not the signature
\* is the server's and whether or not the credential has expired: the
\* issued identity with iat and exp of issuance, also under a foreign or a
\* truncated signature, and the rewritten role for a rewritten payload.
C21_DecodeWithoutTrust ==
  /\ decodeToken(<<>>) = {}
  /\ decodeToken(Noise) = {}
  /\ \A h \in held :
       /\ \E c \in decodeToken(h.token) :
            /\ Names(c, h.user)
            /\ c.iat = h.issuedAt
            /\ c.exp = h.issuedAt + h.ttl
       /\ decodeToken(ForeignSigned(h.token)) = decodeToken(h.token)
       /\ decodeToken(Truncated(h.token)) = decodeToken(h.token)
       /\ \E c \in decodeToken(RoleRewritten(h.token)) :
            /\ c.role = admin
            /\ c.sub = h.user.id
            /\ c.exp = h.issuedAt + h.ttl
       /\ \A w \in {h.token, ForeignSigned(h.token), Truncated(h.token),
                    RoleRewritten(h.token)} :
            Cardinality(decodeToken(w)) = 1

\* C21 witness: an expired viewer's credential is held, so that decodeToken
\* is asked about an expired credential and about tampered ones that
\* verification rejects.
C21_Witness ==
  \E h \in held :
    /\ JwtServiceLoaded
    /\ h.user.role = viewer
    /\ now >= h.issuedAt + h.ttl
    /\ JwtService_verifyToken(h.token, now) = {}
    /\ JwtService_verifyToken(RoleRewritten(h.token), now) = {}
    /\ decodeToken(RoleRewritten(h.token)) # {}

\* What authorize(...L) answers to a request with the attached identity
\* 'user': whether it ended the request, and the status and body it sent.
RoleGateAnswer(L, user) ==
  LET a == authorizeOn(L, [IdleReq EXCEPT !.stage = "middleware", !.pos = 1,
                                          !.stack = <<Mw("authorize", L)>>,
                                          !.user = user])
  IN  <<a.stage, a.status, a.error, a.data>>

\* C22: when authorize has rejected an identity with 403, the status and
\* the body of the answer are those that authorize sends for the same
\* identity under every other allow-list that rejects it: the answer shows
\* nothing of the policy.
C22_RoleGateHidesPolicy ==
  RoleGateActed /\ req.user # {} /\ req.stage = "done" /\ req.pos = RoleGateIndex =>
    \A L \in AllowLists :
      RoleGateAnswer(L, req.user)[1] = "done" =>
        RoleGateAnswer(L, req.user) = <<"done", req.status, req.error, req.data>>

\* C22 witness: authorize has rejected a viewer under an allow-list of one
\* role, and allow-lists of no and of two roles reject the viewer too.
C22_Witness ==
  /\ RoleGateActed
  /\ req.stage = "done"
  /\ req.pos = RoleGateIndex
  /\ req.status = 403
  /\ \E u \in req.user : u.role = viewer
  /\ Len(req.stack[RoleGateIndex].allowedRoles) = 1
  /\ \E L \in AllowLists : Len(L) = 2 /\ RoleGateAnswer(L, req.user)[1] = "done"
  /\ RoleGateAnswer(<<>>, req.user)[1] = "done"

\* From the request r0 at a middleware, the request a is what exactly one
\* outcome leaves: one response more and the request ended where it was, or
\* one call of next more, no response, and the request at the next stage.
ExactlyOneOutcome(r0, a) ==
  \/ /\ a.stage = "done"
     /\ a.responses = r0.responses + 1
     /\ a.nexts = r0.nexts
     /\ a.pos = r0.pos
     /\ a.status \in {401, 403, 500}
  \/ /\ a.stage \in {"middleware", "handler"}
     /\ a.responses = r0.responses
     /\ a.nexts = r0.nexts + 1
     /\ a.pos = r0.pos + 1

\* The ways in which a call of verify can end: with the claim of an issued
\* credential, with null, or with an exception.
VerifyOutcomes ==
  {Threw, Returned({})}
  \cup { Returned({DecodePayload(SubSeq(h.token, 1, DotIndex(h.token) - 1))}) : h \in held }

\* C23: an enforcing Access Gate that has acted on a request has either
\* sent one response and not called next (the request ended at the gate
\* with 401, 403 or 500), or called next once and sent nothing (every
\* response counted afterwards is the one that a later stage sent); and a
\* request that is at the gate gets exactly one outcome however the call of
\* verify ends, an exception included.
C23_AccessGateOneOutcome ==
  /\ AccessGateActed =>
       \/ /\ req.pos = 1
          /\ req.stage = "done"
          /\ req.responses = 1
          /\ req.nexts = 0
          /\ req.status \in {401, 403, 500}
       \/ /\ req.pos > 1
          /\ req.nexts = req.pos - 1
          /\ req.responses = IF req.stage = "done" THEN 1 ELSE 0
  /\ EnforcingGate /\ ~AccessGateActed =>
       /\ req.responses = 0
       /\ req.nexts = 0
       /\ \A outcome \in VerifyOutcomes :
            /\ ExactlyOneOutcome(req, authenticateTokenGiven(req, outcome))
            /\ ExactlyOneOutcome(req, authMiddlewareGiven(req, outcome))

\* C23 witness: authenticateToken has answered 403 a request whose
\* credential made verifyToken throw.
C23_Witness ==
  /\ AccessGateActed
  /\ req.stack[1].name = "authenticateToken"
  /\ Prefixed(req.header)
  /\ JwtService_verifyToken_failure(substring(req.header.value, 7), now) # ""
  /\ req.status = 403
  /\ req.responses = 1
  /\ req.nexts = 0

\* C24: authorize ends every request it has acted on in exactly one of
\* three ways, whatever the attached claim (one without role or with an
\* empty role included) and whatever the allow-list: it answered 401, it
\* answered 403, or it called next; and under the empty allow-list it did
\* not call next.
C24_RoleGateTotal ==
  RoleGateActed =>
    /\ \/ req.pos = RoleGateIndex /\ req.stage = "done" /\ req.status \in {401, 403}
       \/ req.pos > RoleGateIndex
    /\ req.stack[RoleGateIndex].allowedRoles = <<>> => req.pos = RoleGateIndex

\* createUser or updateUser has answered the request with success.
StoreWritten == req.stage = "done" /\ req.op \in {"createUser", "updateUser"}
                                  /\ req.status \in {200, 201}

\* The rows that the request wrote: the created one, or the updated one.
WrittenRows ==
  IF req.op = "createUser"
  THEN { u \in users : \A v \in req.usersBefore : v.id # u.id }
  ELSE { u \in users : u.id = req.id }

\* C25: after createUser, and after updateUser with a password, the
\* password of the written row is the hash of the submitted password and
\* not the submitted text; after updateUser without a password the row's
\* password is the one it had; the passwords of all other rows are the ones
\* they had. (So every stored password stays the hash of the last password
\* submitted for its user.)
C25_StoredPasswordsAreHashes ==
  StoreWritten =>
    /\ Cardinality(WrittenRows) = 1
    /\ \A u \in WrittenRows :
         IF "password" \in DOMAIN req.body
         THEN /\ u.password = hashPassword(req.body.password)
              /\ bcrypt_compare(req.body.password, u.password)
              /\ u.password # req.body.password
         ELSE \E v \in req.usersBefore : v.id = u.id /\ v.password = u.password
    /\ \A u \in users \ WrittenRows :
         \E v \in req.usersBefore : v.id = u.id /\ v.password = u.password

\* C25 witness: updateUser has set the password of an account, the
\* submitted text being another account's stored hash.
C25_Witness ==
  /\ StoreWritten
  /\ req.op = "updateUser"
  /\ "password" \in DOMAIN req.body
  /\ \E v \in req.usersBefore : v.id # req.id /\ v.password = req.body.password

\* C29: UserService.deleteUser returns true exactly when a row with the id
\* existed and was removed, whichever repository serves it.
C29_DeleteReportsRemoval ==
  req.stage = "done" /\ req.op = "UserService.deleteUser" =>
    /\ \A u \in users : u.id # req.id
    /\ \A a \in req.data : a.success <=> \E u \in req.usersBefore : u.id = req.id

\* C28: a login whose email is no account's, or whose password does not
\* hash to the stored password of the account with that email, is answered
\* 401 INVALID_CREDENTIALS with no data (no identity, no credential), the
\* same answer in both cases.
C28_LoginFailureUniform ==
  LoginAnswered /\ ~(\E u \in req.usersBefore : ValidCredentials(u)) =>
    /\ req.status = 401
    /\ req.error = "AUTH_MESSAGES.INVALID_CREDENTIALS"
    /\ req.data = {}

\* The Authorization header that the items of localStorage call for:
\* 'Bearer ' and the stored token, or none when no token is stored.
HeaderFor(storage) ==
  IF Falsy(storage.auth_token)
  THEN NoHeader
  ELSE Header(BearerPrefix \o (CHOOSE w \in storage.auth_token : TRUE))

C27_ClientSessionConsistent ==
  /\ authProvider.token = {} <=> authProvider.user = {}
  /\ isAuthenticated => authProvider.token # {}
  /\ (localStorage.auth_token # {} /\ localStorage.auth_user # {})
       <=> (authProvider.token # {} /\ authProvider.user # {})
  /\ localStorage.auth_token = {} <=> localStorage.auth_user = {}

\* C30: a DELETE handler that found no row with the id answers 404 and has
\* not called deleteUser, one that answers 200 has called it once; and of
\* the handlers that have answered a DELETE for the same id, at most one
\* has answered 200.
C30_ConcurrentDelete ==
  /\ \A h \in 1..MaxInFlight :
       inflight[h].pc = "done" =>
         /\ inflight[h].status \in {200, 404}
         /\ inflight[h].status = 404 <=> inflight[h].deleteCalls = 0
         /\ inflight[h].status = 200 => inflight[h].deleteCalls = 1
  /\ \A h1, h2 \in 1..MaxInFlight :
       /\ h1 # h2
       /\ inflight[h1].pc = "done"
       /\ inflight[h2].pc = "done"
       /\ inflight[h1].id = inflight[h2].id
       => ~(inflight[h1].status = 200 /\ inflight[h2].status = 200)

====
